---- MODULE Spec2Model ----
(***************************************************************************)
(* Model of the watchman company-status repository:                        *)
(* getCompanyStatus / upsertCompanyStatus over the company_status table,   *)
(* with the insert-then-update-on-conflict transaction of                  *)
(* insertCompanyStatus, and of the webhook repository: recordWebhook over  *)
(* the webhook_stats table.  A call is cut into steps where it reads or    *)
(* writes the table (the insert, the update, the commit), so concurrent    *)
(* calls interleave exactly there; what each round trip to the store       *)
(* returns (Begin, Prepare, Exec, Commit, Rollback) is the store's choice. *)
(***************************************************************************)
EXTENDS Integers, FiniteSets, Sequences, TLC

\* ---------------------------------------------------------------- bounds
MaxCalls == 2      \* upsertCompanyStatus calls made in one behaviour
MaxFaults == 1     \* round trips of the upserts that fail for another reason than the constraint
MaxDeletes == 1    \* rows another component marks deleted
MaxRows == 2       \* rows of company_status a read is run against
MaxWebhooks == 2   \* rows recordWebhook adds to webhook_stats

Calls == 1..MaxCalls
Times == {1, 2}

\* ---------------------------------------------------------------- inputs
DbTypes == {"postgres", "sqlite"}
CompanyIDs == {"", "c1"}
UserIDs == {"", "u1"}
Notes == {"flag", "cleared"}
NoteStatus(note) == IF note = "flag" THEN "unsafe" ELSE "ok"

\* The CompanyStatus values a caller passes: the fields the repository uses.
CompanyStatus(userID, note, status, createdAt) ==
    [present |-> TRUE, UserID |-> userID, Note |-> note, Status |-> status,
     CreatedAt |-> createdAt]
\* `var status CompanyStatus` before Scan, and the nil *CompanyStatus.
ZeroStatus ==
    [present |-> FALSE, UserID |-> "", Note |-> "", Status |-> "", CreatedAt |-> 0]
StatusInputs ==
    { CompanyStatus(u, n, NoteStatus(n), t) : u \in UserIDs, n \in Notes, t \in Times }
\* The arguments of the upsertCompanyStatus calls: every status an actor with
\* an ID sets for the company, one status without an actor ID, and one call
\* without a company ID.
UpsertInputs ==
    { <<"c1", st>> : st \in { x \in StatusInputs : x.UserID # "" } }
        \cup { <<"c1", CompanyStatus("", "cleared", NoteStatus("cleared"), 2)>> }
        \cup { <<"", CompanyStatus("u1", "flag", NoteStatus("flag"), 1)>> }

\* The arguments of the recordWebhook calls.
WatchIDs == {"W1", "W2"}
StatusCodes == {200, 500}
WebhookInputs == { <<w, 1, code>> : w \in WatchIDs, code \in StatusCodes }

\* ---------------------------------------------------------------- errors
NoError == [kind |-> "nil", text |-> "", cause |-> "", rollback |-> ""]
\* (mutant) the error is formatted without rollback=%v
ErrorfWithoutRollback(text, cause, rollback) ==
    [kind |-> "error", text |-> text, cause |-> cause, rollback |-> ""]
\* fmt.Errorf(text + " error=%v rollback=%v", cause, rollback)
Errorf(text, cause, rollback) ==
    [kind |-> "error", text |-> text, cause |-> cause, rollback |-> rollback]
\* an error returned as it came: the store's, or errors.New(cause)
StoreError(cause) == [kind |-> "error", text |-> "", cause |-> cause, rollback |-> ""]
NoCompanyID == StoreError("getCompanyStatus: no Company.ID")
\* what %v prints for the error tx.Rollback() returned
RollbackOutcomes == {"<nil>", "rollback failed"}

UniqueViolationError == "unique constraint failed"
BeginFailure == "begin failed"
PrepareFailure == "prepare failed"
ExecFailure == "exec failed"
ErrNoRows == "sql: no rows in result set"
ScanFailure == "scan failed"

\* database.UniqueViolation(err): the classifier of the store's errors.
UniqueViolation(err) == err = UniqueViolationError

\* (mutant) the "no rows" text is not looked for
ContainsNothing(err) == FALSE
\* strings.Contains(err.Error(), "no rows in result set")
ContainsNoRows(err) == err \in {ErrNoRows}

\* ---------------------------------------------------------------- dialects
getCompanyRepo(kind) == IF kind = "postgres" THEN "postgres" ELSE "generic"

SelectQuery(repo) ==
    [verb |-> "select", placeholder |-> IF repo = "postgres" THEN "$n" ELSE "?"]
InsertQuery(repo) ==
    [verb |-> "insert", placeholder |-> IF repo = "postgres" THEN "$n" ELSE "?"]
UpdateQuery == [verb |-> "update", placeholder |-> "?"]
NoQuery == [verb |-> "", placeholder |-> ""]

VARIABLES
    dbType,          \* the database kind the repository was built for
    company_status,  \* the committed rows of table company_status
    calls,           \* each upsertCompanyStatus call: its locals and position
    reader,          \* the last getCompanyStatus call and what it returned
    faults,          \* store failures injected so far
    deletes,         \* rows marked deleted from outside so far
    webhook_stats,   \* the rows of table webhook_stats, in the order they were added
    hook             \* the last recordWebhook call and what it returned

vars == <<dbType, company_status, calls, reader, faults, deletes, webhook_stats, hook>>

\* ---------------------------------------------------------------- the store
Visible(r) == ~r.deleted
\* (mutant) the update has no `and user_id = ?`
MatchesCompany(r, companyID, userID) == r.company_id = companyID
Matches(r, companyID, userID) == r.company_id = companyID /\ r.user_id = userID
VisibleRows(rows, companyID) ==
    { r \in rows : Visible(r) /\ r.company_id = companyID }
VisibleOf(rows, companyID, userID) ==
    { r \in rows : Visible(r) /\ Matches(r, companyID, userID) }

\* (mutant) the table has no uniqueness constraint
NoUniqueConflict(rows, companyID, userID) == FALSE
\* The uniqueness constraint of company_status: one live row per
\* (company_id, user_id).
UniqueConflict(rows, companyID, userID) == VisibleOf(rows, companyID, userID) # {}

NoWrite == [op |-> "none", company_id |-> "", user_id |-> "", note |-> "",
            status |-> "", created_at |-> 0]
\* (mutant) the insert does not pass status.CreatedAt
InsertWriteWithoutCreatedAt(companyID, st) ==
    [op |-> "insert", company_id |-> companyID, user_id |-> st.UserID,
     note |-> st.Note, status |-> st.Status, created_at |-> 0]
InsertWrite(companyID, st) ==
    [op |-> "insert", company_id |-> companyID, user_id |-> st.UserID,
     note |-> st.Note, status |-> st.Status, created_at |-> st.CreatedAt]
\* update company_status set note = ?, status = ? where company_id = ? and user_id = ?
UpdateWrite(companyID, st) ==
    [op |-> "update", company_id |-> companyID, user_id |-> st.UserID,
     note |-> st.Note, status |-> st.Status, created_at |-> 0]

NewRow(rows, w) ==
    [id |-> Cardinality(rows) + 1, company_id |-> w.company_id, user_id |-> w.user_id,
     note |-> w.note, status |-> w.status, created_at |-> w.created_at,
     deleted |-> FALSE]
\* (mutant) the update also overwrites created_at
UpdatedRowStampingCreatedAt(r, w) ==
    [r EXCEPT !.note = w.note, !.status = w.status, !.created_at = w.created_at]
UpdatedRow(r, w) == [r EXCEPT !.note = w.note, !.status = w.status]

\* The table once a transaction's write is committed.
Apply(rows, w) ==
    CASE w.op = "insert" -> rows \cup {NewRow(rows, w)}
      [] w.op = "update" ->
            { IF Matches(r, w.company_id, w.user_id) THEN UpdatedRow(r, w) ELSE r
              : r \in rows }
      [] OTHER -> rows

\* A transaction that wrote holds the rows of its (company_id, user_id) until
\* it ends; another writer of the same pair waits for it.
HeldByOther(c, companyID, userID) ==
    \E d \in Calls \ {c} :
        /\ calls[d].tx = "open"
        /\ calls[d].write.op # "none"
        /\ calls[d].write.company_id = companyID
        /\ calls[d].write.user_id = userID

Held(companyID, userID) == HeldByOther(0, companyID, userID)

\* ---------------------------------------------------------------- state
\* A call's locals (companyID, status, query, the insert's error, tx, the
\* write its transaction holds), what it returned, and a record of what it
\* did: statements prepared and statements closed, Begin, Commit and Rollback
\* invocations, the statements executed in order, what tx.Rollback()
\* returned, the branch taken, whether a round trip failed, whether its pair
\* had no live row when it began, and the row its insert collided with.
IdleCall ==
    [pc |-> "idle", companyID |-> "", status |-> ZeroStatus, query |-> NoQuery,
     insertErr |-> "", tx |-> "none", write |-> NoWrite, stmts |-> 0,
     closed |-> 0, begins |-> 0, execs |-> <<>>, rollbackErr |-> "",
     commits |-> 0, rollbacks |-> 0, ret |-> NoError,
     path |-> "", faulted |-> FALSE, fresh |-> FALSE, target |-> 0]

\* A read's locals (companyID, query, status, err) and a record of what it
\* did: the error the store gave it, statements prepared and closed.
IdleReader ==
    [pc |-> "idle", companyID |-> "", query |-> NoQuery, store |-> "",
     stmts |-> 0, closed |-> 0, status |-> ZeroStatus, err |-> NoError]

\* A recordWebhook call's arguments and locals, and what it returned.
IdleHook ==
    [pc |-> "idle", watchID |-> "", attemptedAt |-> 0, status |-> 0,
     query |-> NoQuery, stmts |-> 0, closed |-> 0, ret |-> NoError]

Init ==
    /\ dbType \in DbTypes
    /\ company_status = {}
    /\ calls = [c \in Calls |-> IdleCall]
    /\ reader = IdleReader
    /\ faults = 0
    /\ deletes = 0
    /\ webhook_stats = <<>>
    /\ hook = IdleHook

CanFail == faults < MaxFaults

\* ---------------------------------------------------------------- upsert
\* (mutant) the error path calls tx.Commit() where it should roll back
CommittedInstead(me, path, text, cause, outcome) ==
    [me EXCEPT !.pc = "done", !.tx = "done", !.write = NoWrite,
               !.commits = @ + 1, !.faulted = TRUE,
               !.path = path, !.ret = Errorf(text, cause, outcome)]
\* (mutant) the error path returns without ending the transaction
ReturnedWithoutRollback(me, path, text, cause, outcome) ==
    [me EXCEPT !.pc = "done", !.faulted = TRUE,
               !.path = path, !.ret = Errorf(text, cause, outcome)]
\* tx.Rollback() inside a returned fmt.Errorf: the transaction ends, and the
\* outcome of the rollback is folded into the error.
RolledBack(me, path, text, cause, outcome) ==
    [me EXCEPT !.pc = "done", !.tx = "done", !.write = NoWrite,
               !.rollbacks = @ + 1, !.rollbackErr = outcome, !.faulted = TRUE,
               !.path = path, !.ret = Errorf(text, cause, outcome)]

\* (mutant) the statement is left open
CloseSkipped(h) == h
\* stmt.Close()
Close(h) == [h EXCEPT !.closed = @ + 1]

\* (mutant) an insert that failed for another reason is executed again
AfterInsertRetrying(err) ==
    IF err = "" THEN "commit"
    ELSE IF UniqueViolation(err) THEN "inner"
    ELSE "insert"
\* (mutant) a uniqueness violation is not followed by the update
AfterInsertSkippingUpdate(err) == "commit"
\* where the call goes once stmt.Exec of the insert returned err
AfterInsert(err) ==
    IF err = "" THEN "commit"
    ELSE IF UniqueViolation(err) THEN "inner"
    ELSE "commit"

\* upsertCompanyStatus: tx, err := r.db.Begin(); the insert query of the
\* dialect is handed to insertCompanyStatus.
upsertCompanyStatus(c) ==
    /\ calls[c].pc = "idle"
    /\ \A d \in Calls : d < c => calls[d].pc # "idle"
    /\ \E in \in UpsertInputs :
         LET me == [calls[c] EXCEPT
                        !.companyID = in[1], !.status = in[2], !.begins = @ + 1,
                        !.fresh = ~UniqueConflict(company_status, in[1], in[2].UserID)]
         IN \/ /\ CanFail
               /\ faults' = faults + 1
               /\ calls' = [calls EXCEPT ![c] =
                      [me EXCEPT !.pc = "done", !.faulted = TRUE, !.path = "begin",
                                 !.ret = Errorf("upsertCompanyStatus: begin",
                                                BeginFailure, "")]]
            \/ /\ calls' = [calls EXCEPT ![c] =
                      [me EXCEPT !.pc = "insert", !.tx = "open",
                                 !.query = InsertQuery(getCompanyRepo(dbType))]]
               /\ UNCHANGED faults
    /\ UNCHANGED <<dbType, company_status, reader, deletes, webhook_stats, hook>>

\* insertCompanyStatus up to the branch on the insert's error:
\* stmt, err := tx.Prepare(query); _, err = stmt.Exec(...); stmt.Close()
InsertStatement(c) ==
    /\ calls[c].pc = "insert"
    /\ LET me == calls[c]
           w == InsertWrite(me.companyID, me.status)
       IN \/ /\ CanFail
             /\ faults' = faults + 1
             /\ \E outcome \in RollbackOutcomes :
                   calls' = [calls EXCEPT ![c] =
                       RolledBack(me, "prepare", "upsertCompanyStatus: prepare",
                                  PrepareFailure, outcome)]
          \/ /\ ~UniqueConflict(company_status, w.company_id, w.user_id)
             /\ ~HeldByOther(c, w.company_id, w.user_id)
             /\ calls' = [calls EXCEPT ![c] =
                    Close([me EXCEPT !.pc = AfterInsert(""), !.insertErr = "",
                                     !.write = w, !.stmts = @ + 1,
                                     !.execs = Append(@, "insert"),
                                     !.path = "insert"])]
             /\ UNCHANGED faults
          \/ /\ UniqueConflict(company_status, w.company_id, w.user_id)
             /\ \E r \in VisibleOf(company_status, w.company_id, w.user_id) :
                    calls' = [calls EXCEPT ![c] =
                        Close([me EXCEPT !.pc = AfterInsert(UniqueViolationError),
                                         !.insertErr = UniqueViolationError,
                                         !.stmts = @ + 1,
                                         !.execs = Append(@, "insert"),
                                         !.path = "conflict", !.target = r.id])]
             /\ UNCHANGED faults
          \/ /\ CanFail
             /\ faults' = faults + 1
             /\ calls' = [calls EXCEPT ![c] =
                    Close([me EXCEPT !.pc = AfterInsert(ExecFailure),
                                     !.insertErr = ExecFailure, !.stmts = @ + 1,
                                     !.execs = Append(@, "insert"),
                                     !.faulted = TRUE, !.path = "insert failed"])]
    /\ UNCHANGED <<dbType, company_status, reader, deletes, webhook_stats, hook>>

\* the branch taken on a uniqueness violation:
\* query = `update ...`; stmt, err = tx.Prepare(query); _, err := stmt.Exec(...)
InnerStatement(c) ==
    /\ calls[c].pc = "inner"
    /\ LET me == calls[c]
       IN \/ /\ CanFail
             /\ faults' = faults + 1
             /\ \E outcome \in RollbackOutcomes :
                   calls' = [calls EXCEPT ![c] =
                       [RolledBack(me, "inner prepare",
                                   "upsertCompanyStatus: inner prepare",
                                   PrepareFailure, outcome)
                           EXCEPT !.query = UpdateQuery]]
          \/ /\ ~HeldByOther(c, me.companyID, me.status.UserID)
             /\ calls' = [calls EXCEPT ![c] =
                    Close([me EXCEPT !.pc = "commit", !.query = UpdateQuery,
                                     !.write = UpdateWrite(me.companyID, me.status),
                                     !.stmts = @ + 1,
                                     !.execs = Append(@, "update"),
                                     !.path = "update"])]
             /\ UNCHANGED faults
          \/ /\ CanFail
             /\ faults' = faults + 1
             /\ \E outcome \in RollbackOutcomes :
                   calls' = [calls EXCEPT ![c] =
                       Close([RolledBack(me, "update failed",
                                         "upsertCompanyStatus: unique",
                                         ExecFailure, outcome)
                                 EXCEPT !.query = UpdateQuery, !.stmts = @ + 1,
                                        !.execs = Append(@, "update")])]
    /\ UNCHANGED <<dbType, company_status, reader, deletes, webhook_stats, hook>>

\* return tx.Commit()
Commit(c) ==
    /\ calls[c].pc = "commit"
    /\ \/ /\ company_status' = Apply(company_status, calls[c].write)
          /\ calls' = [calls EXCEPT ![c] =
                [@ EXCEPT !.pc = "done", !.tx = "done", !.commits = @ + 1,
                          !.ret = NoError]]
          /\ UNCHANGED faults
       \/ /\ CanFail
          /\ faults' = faults + 1
          /\ calls' = [calls EXCEPT ![c] =
                [@ EXCEPT !.pc = "done", !.tx = "done", !.commits = @ + 1,
                          !.write = NoWrite, !.faulted = TRUE,
                          !.ret = StoreError("commit failed")]]
          /\ UNCHANGED company_status
    /\ UNCHANGED <<dbType, reader, deletes, webhook_stats, hook>>

\* ---------------------------------------------------------------- read
\* (mutant) the query has no `order by created_at desc`
AnyLive(rows, companyID) == VisibleRows(rows, companyID)
\* the row `... order by created_at desc limit 1` yields
Latest(rows, companyID) ==
    { r \in VisibleRows(rows, companyID) :
        \A o \in VisibleRows(rows, companyID) : o.created_at <= r.created_at }

\* queryCompanyStatus after row.Scan returned err into status
Scanned(status, err) ==
    IF err # "" /\ ~ContainsNoRows(err)
    THEN [status |-> ZeroStatus, err |-> Errorf("getCompanyStatus", err, "")]
    ELSE IF status.UserID = ""
    THEN [status |-> ZeroStatus, err |-> NoError]
    ELSE [status |-> status, err |-> NoError]

\* the call returns res; store is the error the store gave it, stmts the
\* statements r.db.Prepare handed back
Returned(companyID, query, store, stmts, res) ==
    [pc |-> "done", companyID |-> companyID, query |-> query, store |-> store,
     stmts |-> stmts, closed |-> 0, status |-> res.status, err |-> res.err]

\* getCompanyStatus with queryCompanyStatus: the ID check, r.db.Prepare,
\* defer stmt.Close(), stmt.QueryRow, row.Scan and the result.
getCompanyStatus(companyID) ==
    /\ reader.pc = "idle"
    /\ \/ /\ companyID = ""
          /\ reader' = Returned(companyID, NoQuery, "", 0,
                                [status |-> ZeroStatus, err |-> NoCompanyID])
       \/ /\ companyID # ""
          /\ reader' = Returned(companyID, SelectQuery(getCompanyRepo(dbType)),
                PrepareFailure, 0,
                [status |-> ZeroStatus, err |-> StoreError(PrepareFailure)])
       \/ /\ companyID # ""
          /\ reader' = Close(Returned(companyID, SelectQuery(getCompanyRepo(dbType)),
                                      ScanFailure, 1,
                                      Scanned(ZeroStatus, ScanFailure)))
       \/ /\ companyID # ""
          /\ Latest(company_status, companyID) = {}
          /\ reader' = Close(Returned(companyID, SelectQuery(getCompanyRepo(dbType)),
                                      ErrNoRows, 1,
                                      Scanned(ZeroStatus, ErrNoRows)))
       \/ /\ companyID # ""
          /\ \E r \in Latest(company_status, companyID) :
                reader' = Close(Returned(companyID, SelectQuery(getCompanyRepo(dbType)),
                    "", 1,
                    Scanned(CompanyStatus(r.user_id, r.note, r.status, r.created_at), "")))
    /\ UNCHANGED <<dbType, company_status, calls, faults, deletes, webhook_stats, hook>>

\* the caller takes the result; the next read may start
GetReturns ==
    /\ reader.pc = "done"
    /\ reader' = IdleReader
    /\ UNCHANGED <<dbType, company_status, calls, faults, deletes, webhook_stats, hook>>

\* ---------------------------------------------------------------- webhook
getWebhookRepo(kind) == IF kind = "postgres" THEN "postgres" ELSE "generic"

\* insert into webhook_stats (watch_id, attempted_at, status) values (...)
WebhookQuery(repo) ==
    [verb |-> "insert", placeholder |-> IF repo = "postgres" THEN "$n" ELSE "?"]

\* (mutant) the insert does not pass status
WebhookRowWithoutStatus(watchID, attemptedAt, status) ==
    [watch_id |-> watchID, attempted_at |-> attemptedAt, status |-> 0]
\* stmt.Exec(watchID, attemptedAt, status)
WebhookRow(watchID, attemptedAt, status) ==
    [watch_id |-> watchID, attempted_at |-> attemptedAt, status |-> status]

\* recordWebhook with insertWebhook: r.db.Prepare(query), then
\* if err != nil { return err }; defer stmt.Close(); _, err = stmt.Exec(...);
\* return err
recordWebhook(watchID, attemptedAt, status) ==
    /\ hook.pc = "idle"
    /\ Len(webhook_stats) < MaxWebhooks
    /\ LET me == [hook EXCEPT !.pc = "done", !.watchID = watchID,
                              !.attemptedAt = attemptedAt, !.status = status,
                              !.query = WebhookQuery(getWebhookRepo(dbType))]
       IN \/ /\ hook' = [me EXCEPT !.ret = StoreError(PrepareFailure)]
             /\ UNCHANGED webhook_stats
          \/ /\ hook' = Close([me EXCEPT !.stmts = @ + 1, !.ret = NoError])
             /\ webhook_stats' =
                    Append(webhook_stats, WebhookRow(watchID, attemptedAt, status))
          \/ /\ hook' = Close([me EXCEPT !.stmts = @ + 1,
                                          !.ret = StoreError(ExecFailure)])
             /\ UNCHANGED webhook_stats
    /\ UNCHANGED <<dbType, company_status, calls, reader, faults, deletes>>

\* the caller takes the result; the next recordWebhook may start
HookReturns ==
    /\ hook.pc = "done"
    /\ hook' = IdleHook
    /\ UNCHANGED <<dbType, company_status, calls, reader, faults, deletes,
                   webhook_stats>>

\* ---------------------------------------------------------------- outside
\* Another component marks a live row deleted (deleted_at is set); the
\* repository itself never does.
SoftDelete(r) ==
    /\ deletes < MaxDeletes
    /\ deletes' = deletes + 1
    /\ Visible(r)
    /\ ~Held(r.company_id, r.user_id)
    /\ company_status' = (company_status \ {r}) \cup {[r EXCEPT !.deleted = TRUE]}
    /\ UNCHANGED <<dbType, calls, reader, faults, webhook_stats, hook>>

\* A read is one query and returns before anything else is taken up, so
\* what it returned is always looked at next to the table it read.
Next ==
    \/ /\ reader.pc = "idle"
       /\ \/ \E c \in Calls : upsertCompanyStatus(c)
          \/ \E c \in Calls : InsertStatement(c)
          \/ \E c \in Calls : InnerStatement(c)
          \/ \E c \in Calls : Commit(c)
          \/ \E r \in company_status : SoftDelete(r)
    \/ \E companyID \in CompanyIDs : getCompanyStatus(companyID)
    \/ GetReturns

Spec == Init /\ [][Next]_vars

\* The writers alone: the upserts and the outside deletions, no reads.
NextUpsert ==
    \/ \E c \in Calls : upsertCompanyStatus(c)
    \/ \E c \in Calls : InsertStatement(c)
    \/ \E c \in Calls : InnerStatement(c)
    \/ \E c \in Calls : Commit(c)
    \/ \E r \in company_status : SoftDelete(r)

SpecUpsert == Init /\ [][NextUpsert]_vars

\* The reads alone, run against every table of up to MaxRows rows that keeps
\* the uniqueness constraint.
RowContents ==
    [company_id : CompanyIDs, user_id : UserIDs, note : Notes,
     created_at : Times, deleted : BOOLEAN]
TableOf(f) ==
    { [id |-> i, company_id |-> f[i].company_id, user_id |-> f[i].user_id,
       note |-> f[i].note, status |-> NoteStatus(f[i].note),
       created_at |-> f[i].created_at, deleted |-> f[i].deleted] : i \in DOMAIN f }
Tables ==
    { t \in { TableOf(f) : f \in UNION { [1..n -> RowContents] : n \in 0..MaxRows } } :
        \A r \in t : Visible(r) => VisibleOf(t, r.company_id, r.user_id) = {r} }

InitRead ==
    /\ dbType \in DbTypes
    /\ company_status \in Tables
    /\ calls = [c \in Calls |-> IdleCall]
    /\ reader = IdleReader
    /\ faults = 0
    /\ deletes = 0
    /\ webhook_stats = <<>>
    /\ hook = IdleHook

NextRead ==
    \/ \E companyID \in CompanyIDs : getCompanyStatus(companyID)
    \/ GetReturns

SpecRead == InitRead /\ [][NextRead]_vars

\* The webhook repository alone.
NextWebhook ==
    \/ \E in \in WebhookInputs : recordWebhook(in[1], in[2], in[3])
    \/ HookReturns

SpecWebhook == Init /\ [][NextWebhook]_vars

\* Both repositories of the server: upserts, reads and webhook records. A
\* read or a recordWebhook is one statement and returns before anything else
\* is taken up.
NextServer ==
    \/ /\ reader.pc = "idle"
       /\ hook.pc = "idle"
       /\ \/ \E c \in Calls : upsertCompanyStatus(c)
          \/ \E c \in Calls : InsertStatement(c)
          \/ \E c \in Calls : InnerStatement(c)
          \/ \E c \in Calls : Commit(c)
          \/ \E r \in company_status : SoftDelete(r)
    \/ /\ hook.pc = "idle"
       /\ \E companyID \in CompanyIDs : getCompanyStatus(companyID)
    \/ GetReturns
    \/ /\ reader.pc = "idle"
       /\ \E in \in WebhookInputs : recordWebhook(in[1], in[2], in[3])
    \/ HookReturns

SpecServer == Init /\ [][NextServer]_vars

\* ================================================================ claims
Done(c) == calls[c].pc = "done"
\* the step on which call c returns to its caller
Returns(c) == calls[c].pc # "done" /\ calls'[c].pc = "done"
Pair(c) == <<calls[c].companyID, calls[c].status.UserID>>
RowOf(rows, id) == CHOOSE r \in rows : r.id = id

\* C1: when the INSERT fails with an error the classifier does not take for a
\* uniqueness violation, the call rolls the transaction back, never commits
\* it, returns an error wrapping the insert's error, and leaves the table as
\* it was.
C1_InsertErrorRollsBack ==
    [][\A c \in Calls :
         (Returns(c) /\ calls'[c].insertErr # ""
                     /\ ~UniqueViolation(calls'[c].insertErr))
         => /\ calls'[c].rollbacks = 1
            /\ calls'[c].commits = 0
            /\ calls'[c].ret.kind = "error"
            /\ calls'[c].ret.cause = calls'[c].insertErr
            /\ company_status' = company_status]_vars

\* C2: whenever upsertCompanyStatus returns nil, the table holds a live row of
\* (companyID, status.UserID) with the note and status of the call.
C2_SuccessMeansRowWritten ==
    [][\A c \in Calls :
         (Returns(c) /\ calls'[c].ret = NoError)
         => \E r \in VisibleOf(company_status', calls'[c].companyID,
                               calls'[c].status.UserID) :
                r.note = calls'[c].status.Note /\ r.status = calls'[c].status.Status]_vars

\* C3: an upsert whose insert collides with the live row of its pair, and
\* meets no other failure, returns nil without adding a row: the pair keeps at
\* most one live row, and the row it collided with carries the call's note
\* and status while its created_at, key and deleted_at are what they were.
C3_ConflictUpdatesInPlace ==
    [][\A c \in Calls :
         (Returns(c) /\ UniqueViolation(calls'[c].insertErr) /\ ~calls'[c].faulted)
         => /\ calls'[c].ret = NoError
            /\ Cardinality(company_status') = Cardinality(company_status)
            /\ Cardinality(VisibleOf(company_status', calls'[c].companyID,
                                     calls'[c].status.UserID)) <= 1
            /\ LET old == RowOf(company_status, calls'[c].target)
                   new == RowOf(company_status', calls'[c].target)
               IN /\ new.note = calls'[c].status.Note
                  /\ new.status = calls'[c].status.Status
                  /\ new.created_at = old.created_at
                  /\ new.company_id = old.company_id
                  /\ new.user_id = old.user_id
                  /\ new.deleted = old.deleted]_vars

\* a second upsert of a pair has returned nil through the update: one live
\* row, with the second call's note and the first call's created_at
C3_Witness ==
    \E c \in Calls :
        /\ Done(c) /\ calls[c].path = "update" /\ calls[c].ret = NoError
        /\ \E r \in company_status :
              /\ r.id = calls[c].target /\ Visible(r)
              /\ r.note = calls[c].status.Note
              /\ r.created_at # calls[c].status.CreatedAt
        /\ Cardinality(VisibleOf(company_status, calls[c].companyID,
                                 calls[c].status.UserID)) = 1

\* C4: in every reachable table at most one live row exists per
\* (company_id, user_id).
C4_OneLiveRowPerPair ==
    \A companyID \in CompanyIDs, userID \in UserIDs :
        Cardinality(VisibleOf(company_status, companyID, userID)) <= 1

\* a pair with a deleted row and a live row, both written by upserts
C4_Witness ==
    \E r1, r2 \in company_status :
        /\ r1.company_id = r2.company_id /\ r1.user_id = r2.user_id
        /\ r1.deleted /\ Visible(r2)
        /\ \A c \in Calls : Done(c) /\ calls[c].ret = NoError

\* C5: of two upserts of the same pair that both began while the pair had no
\* live row (so they overlap), with no other failure, no further writer of the
\* pair and no deletion of its rows: one commits through the insert, the other
\* is sent to the update by the uniqueness violation, both return nil, and the
\* pair's single row carries the note and status of the one that commits last.
C5_ConcurrentUpsertsOfNewPair ==
    [][\A c, d \in Calls :
         ( /\ c # d /\ Returns(c) /\ calls[d].pc = "done"
           /\ calls'[c].companyID = calls[d].companyID
           /\ calls'[c].status.UserID = calls[d].status.UserID
           /\ calls'[c].fresh /\ calls[d].fresh
           /\ ~calls'[c].faulted /\ ~calls[d].faulted
           /\ \A e \in Calls \ {c, d} :
                 calls[e].pc # "idle" => Pair(e) # Pair(d)
           /\ \A r \in company_status' :
                 Matches(r, calls[d].companyID, calls[d].status.UserID) => Visible(r) )
         => /\ {calls'[c].path, calls[d].path} = {"insert", "update"}
            /\ calls'[c].ret = NoError /\ calls[d].ret = NoError
            /\ \E r \in company_status' :
                  /\ { o \in company_status' :
                         Matches(o, calls[d].companyID, calls[d].status.UserID) } = {r}
                  /\ r.note = calls'[c].status.Note
                  /\ r.status = calls'[c].status.Status]_vars

\* two overlapping upserts of a new pair with different notes have both returned
C5_Witness ==
    \E c, d \in Calls :
        /\ c # d /\ Done(c) /\ Done(d) /\ Pair(c) = Pair(d)
        /\ calls[c].fresh /\ calls[d].fresh
        /\ calls[d].path = "insert" /\ calls[c].path = "update"
        /\ calls[c].ret = NoError /\ calls[d].ret = NoError
        /\ calls[c].status.Note # calls[d].status.Note
        /\ \E r \in company_status :
              Matches(r, calls[c].companyID, calls[c].status.UserID)
                 /\ r.note = calls[c].status.Note

\* C6: when preparing or executing the UPDATE fails, the call invokes
\* Rollback and not Commit, returns an error, and the table is untouched: no
\* step of a call that has not committed changes the table.
C6_UpdateFailureRollsBack ==
    [][\A c \in Calls :
         /\ (calls'[c] # calls[c] /\ calls'[c].commits = 0)
               => company_status' = company_status
         /\ (Returns(c) /\ calls'[c].path \in {"inner prepare", "update failed"})
               => /\ calls'[c].rollbacks = 1
                  /\ calls'[c].commits = 0
                  /\ calls'[c].tx = "done"
                  /\ calls'[c].write = NoWrite
                  /\ calls'[c].ret.kind = "error"
                  /\ company_status' = company_status]_vars

\* an UPDATE has failed and the row it was to change keeps its old note
C6_Witness ==
    \E c \in Calls :
        /\ Done(c) /\ calls[c].path = "update failed"
        /\ calls[c].rollbacks = 1 /\ calls[c].ret.kind = "error"
        /\ \E r \in company_status :
              r.id = calls[c].target /\ r.note # calls[c].status.Note

\* C7: getCompanyStatus and upsertCompanyStatus called with an empty
\* companyID fail with an invalid-argument error and touch nothing: no
\* transaction is begun, no statement prepared, no row written.
C7_EmptyCompanyIDRejected ==
    /\ \A c \in Calls :
          (calls[c].pc # "idle" /\ calls[c].companyID = "")
          => /\ Done(c)
             /\ calls[c].ret.kind = "error"
             /\ calls[c].tx = "none"
             /\ calls[c].stmts = 0
    /\ \A r \in company_status : r.company_id # ""
    /\ (reader.pc = "done" /\ reader.companyID = "")
          => /\ reader.err = NoCompanyID
             /\ ~reader.status.present
             /\ reader.query = NoQuery

\* C8: a call that began a transaction has invoked exactly one of Commit and
\* Rollback on it when it returns, and the transaction is ended; before it
\* returns it has invoked neither.
C8_TransactionEndedOnce ==
    \A c \in Calls :
        /\ (Done(c) /\ calls[c].tx # "none")
              => calls[c].tx = "done" /\ calls[c].commits + calls[c].rollbacks = 1
        /\ (Done(c) /\ calls[c].tx = "none")
              => calls[c].commits + calls[c].rollbacks = 0
        /\ ~Done(c) => calls[c].commits + calls[c].rollbacks = 0

\* one call has returned after its insert could not be prepared (one
\* Rollback), another after committing its insert (one Commit)
C8_Witness ==
    \E c, d \in Calls :
        /\ Done(c) /\ calls[c].path = "prepare"
        /\ calls[c].tx = "done" /\ calls[c].rollbacks = 1 /\ calls[c].commits = 0
        /\ Done(d) /\ calls[d].path = "insert"
        /\ calls[d].tx = "done" /\ calls[d].rollbacks = 0 /\ calls[d].commits = 1

\* C9: an upsert of a pair without any row, meeting no failure, takes the
\* insert branch; a call that commits through the insert branch adds exactly
\* one row, live, with the call's note, status and created_at, the only live
\* row of its pair, and every other row of the table is as before.
C9_InsertCreatesOneRow ==
    [][\A c \in Calls :
         /\ ( /\ calls[c].pc = "insert" /\ calls'[c].pc # "insert"
              /\ ~calls'[c].faulted
              /\ \A r \in company_status :
                    ~Matches(r, calls[c].companyID, calls[c].status.UserID) )
               => calls'[c].path = "insert"
         /\ (Returns(c) /\ calls'[c].path = "insert" /\ ~calls'[c].faulted)
               => /\ calls'[c].ret = NoError
                  /\ \E r \in company_status' \ company_status :
                        /\ company_status' = company_status \cup {r}
                        /\ Visible(r)
                        /\ r.company_id = calls'[c].companyID
                        /\ r.user_id = calls'[c].status.UserID
                        /\ r.note = calls'[c].status.Note
                        /\ r.status = calls'[c].status.Status
                        /\ r.created_at = calls'[c].status.CreatedAt
                        /\ VisibleOf(company_status', r.company_id, r.user_id) = {r}]_vars

\* an insert has been committed next to a row of another pair
C9_Witness ==
    \E c \in Calls :
        /\ Done(c) /\ calls[c].path = "insert" /\ calls[c].ret = NoError
        /\ \E r, o \in company_status :
              /\ Matches(r, calls[c].companyID, calls[c].status.UserID)
              /\ r.created_at = calls[c].status.CreatedAt
              /\ r.note = calls[c].status.Note
              /\ o.id < r.id
              /\ ~Matches(o, r.company_id, r.user_id)

\* C10: a getCompanyStatus that meets no store failure returns, whenever the
\* company has a live row, the live row with the greatest created_at.
C10_ReadReturnsLatestLiveRow ==
    ( /\ reader.pc = "done" /\ reader.companyID # "" /\ reader.err = NoError
      /\ VisibleRows(company_status, reader.companyID) # {} )
    => /\ reader.status.present
       /\ \E r \in Latest(company_status, reader.companyID) :
             reader.status = CompanyStatus(r.user_id, r.note, r.status, r.created_at)

\* the failures of the store a read can meet, other than "no matching row"
ReadFailures == {PrepareFailure, ScanFailure}

NewestLive(rows, companyID) ==
    { r \in rows :
        /\ ~r.deleted /\ r.company_id = companyID
        /\ \A o \in rows :
              (~o.deleted /\ o.company_id = companyID) => o.created_at <= r.created_at }

\* what a getCompanyStatus that meets no store failure can return on a table
ReadResults(rows, companyID) ==
    IF Latest(rows, companyID) = {}
    THEN { Scanned(ZeroStatus, ErrNoRows) }
    ELSE { Scanned(CompanyStatus(r.user_id, r.note, r.status, r.created_at), "")
           : r \in Latest(rows, companyID) }

C13_WebhookAppendOnly ==
    [][/\ Len(webhook_stats') >= Len(webhook_stats)
       /\ SubSeq(webhook_stats', 1, Len(webhook_stats)) = webhook_stats
       /\ (hook.pc = "idle" /\ hook'.pc = "done")
          => \/ /\ hook'.ret = NoError
                /\ webhook_stats' =
                      Append(webhook_stats,
                             [watch_id |-> hook'.watchID,
                              attempted_at |-> hook'.attemptedAt,
                              status |-> hook'.status])
             \/ /\ hook'.ret \in {StoreError(PrepareFailure), StoreError(ExecFailure)}
                /\ webhook_stats' = webhook_stats]_vars

\* the same attempt has been recorded twice: two equal rows, both calls nil
C13_Witness ==
    /\ hook.pc = "done" /\ hook.ret = NoError
    /\ Len(webhook_stats) = 2
    /\ webhook_stats[1] = webhook_stats[2]
    /\ webhook_stats[2].watch_id = hook.watchID

\* the placeholder syntax of a dialect: $n for postgres, ? for the generic one
Placeholder(kind) == IF kind = "postgres" THEN "$n" ELSE "?"

\* C14: getCompanyRepo gives the postgres repository exactly for dbType
\* "postgres" and the generic one otherwise, and every statement a call of
\* the repository issues (the select, the insert, the update after a
\* uniqueness violation) is written with the placeholders of dbType.
C14_StatementsUseDialectPlaceholders ==
    /\ getCompanyRepo(dbType) = (IF dbType = "postgres" THEN "postgres" ELSE "generic")
    /\ \A c \in Calls :
          calls[c].query # NoQuery
             => calls[c].query.placeholder = Placeholder(dbType)
    /\ reader.query # NoQuery
          => reader.query.placeholder = Placeholder(dbType)

\* C15: an upsertCompanyStatus call invokes Begin at most once and executes,
\* in its one transaction, at most one insert and then at most one update;
\* the update is executed only after the insert of the same call failed with
\* a uniqueness violation, and nothing is executed again after a failure. A
\* call whose Begin fails returns an error having prepared and executed
\* nothing.
C15_OneInsertThenOneUpdate ==
    \A c \in Calls :
        /\ calls[c].begins <= 1
        /\ calls[c].execs \in {<<>>, <<"insert">>, <<"insert", "update">>}
        /\ calls[c].stmts <= 2
        /\ calls[c].execs # <<>> => calls[c].begins = 1 /\ calls[c].tx # "none"
        /\ Len(calls[c].execs) = 2 => UniqueViolation(calls[c].insertErr)
        /\ (calls[c].insertErr # "" /\ ~UniqueViolation(calls[c].insertErr))
              => calls[c].execs = <<"insert">>
        /\ calls[c].path = "begin"
              => /\ Done(c)
                 /\ calls[c].ret.kind = "error"
                 /\ calls[c].tx = "none"
                 /\ calls[c].stmts = 0
                 /\ calls[c].execs = <<>>

\* a call has returned nil after its insert and then its update, another
\* after its insert alone
C15_Witness ==
    \E c, d \in Calls :
        /\ Done(c) /\ calls[c].execs = <<"insert", "update">>
        /\ calls[c].begins = 1 /\ calls[c].commits = 1 /\ calls[c].ret = NoError
        /\ Done(d) /\ calls[d].execs = <<"insert">>

C17_ErrorCarriesRollbackOutcome ==
    \A c \in Calls :
        /\ (Done(c) /\ calls[c].rollbacks > 0)
              => /\ calls[c].path \in {"prepare", "inner prepare", "update failed"}
                 /\ calls[c].ret.kind = "error"
                 /\ calls[c].ret.cause =
                       (IF calls[c].path = "update failed"
                        THEN ExecFailure ELSE PrepareFailure)
                 /\ calls[c].rollbackErr \in RollbackOutcomes
                 /\ calls[c].ret.rollback = calls[c].rollbackErr
        /\ (Done(c) /\ calls[c].path \in {"prepare", "inner prepare", "update failed"})
              => calls[c].rollbacks = 1

\* an update could not be prepared, the rollback failed too, and the error
\* returned says both
C17_Witness ==
    \E c \in Calls :
        /\ Done(c) /\ calls[c].path = "inner prepare"
        /\ calls[c].rollbackErr = "rollback failed"
        /\ calls[c].ret = Errorf("upsertCompanyStatus: inner prepare",
                                 PrepareFailure, "rollback failed")

\* C18: every statement a call prepared is closed when the call returns (for
\* an upsert, already when it goes on to its next statement or to Commit),
\* whichever way it returns; a returned upsert has no open transaction; and a
\* call starts with no statement and no transaction of its own or another's.
C18_StatementsClosed ==
    /\ \A c \in Calls :
          /\ calls[c].closed = calls[c].stmts
          /\ Done(c) => calls[c].tx \in {"none", "done"}
          /\ calls[c].pc = "idle" => calls[c].tx = "none" /\ calls[c].stmts = 0
    /\ reader.closed = reader.stmts
    /\ reader.pc = "idle" => reader.stmts = 0
    /\ reader.pc = "done"
          => reader.stmts = (IF reader.companyID = "" \/ reader.store = PrepareFailure
                             THEN 0 ELSE 1)
    /\ hook.closed = hook.stmts
    /\ hook.pc = "idle" => hook.stmts = 0
    /\ hook.pc = "done"
          => hook.stmts = (IF hook.ret = StoreError(PrepareFailure) THEN 0 ELSE 1)

\* an upsert has returned after its insert and its update, both closed and
\* its transaction ended, and a recordWebhook has just closed its insert
C18_Witness ==
    /\ \E c \in Calls :
          /\ Done(c) /\ calls[c].stmts = 2 /\ calls[c].closed = 2
          /\ calls[c].tx = "done"
    /\ hook.pc = "done" /\ hook.stmts = 1 /\ hook.closed = 1
    /\ Len(webhook_stats) = 1

\* C19: a getCompanyStatus that meets no store failure returns (nil, nil)
\* only when the company has no live row; when it has one, whatever its
\* user_id, the call returns a record equal to a newest live row.
C19_AbsentOnlyWithoutLiveRow ==
    ( /\ reader.pc = "done" /\ reader.companyID # ""
      /\ reader.store \notin ReadFailures )
    => /\ (~reader.status.present /\ reader.err = NoError)
             => VisibleRows(company_status, reader.companyID) = {}
       /\ VisibleRows(company_status, reader.companyID) # {}
             => \E r \in NewestLive(company_status, reader.companyID) :
                   reader.status =
                      CompanyStatus(r.user_id, r.note, r.status, r.created_at)

\* C20: no step changes a row that is marked deleted: the update of an upsert
\* leaves the soft-deleted rows of its (company_id, user_id) as they are.
C20_DeletedRowsNotUpdated ==
    [][\A r \in company_status : r.deleted => r \in company_status']_vars

====
